---- MODULE Spec2Model ----
(***************************************************************************)
(* Marstek UDP device client (custom_components/marstek_ha/marstek_api.py) *)
(* together with the coordinator and the mode select entity that call it.  *)
(*                                                                         *)
(* The client is modelled at the granularity of asyncio: a coroutine runs  *)
(* without interleaving up to its next await that really suspends, which   *)
(* in this client are the two run_in_executor calls of _send_command       *)
(* (sendto, recvfrom).  One action completes such an await and runs the    *)
(* code that follows it up to the next one.                                *)
(***************************************************************************)
EXTENDS Integers, Sequences, FiniteSets, TLC

\* ------------------------------------------------------------- bounds
MaxRequests == 4      \* request datagrams transmitted in one behaviour
MaxSockets == 2       \* sockets created in one behaviour
MaxCalls == 2         \* top-level calls started in one behaviour

\* ------------------------------------------------------------- constants
CMD_GET_DEVICE == "Marstek.GetDevice"
CMD_BAT_STATUS == "Bat.GetStatus"
CMD_ES_SET_MODE == "ES.SetMode"
CMD_ES_GET_MODE == "ES.GetMode"
ES_MODES == <<"Auto", "AI", "Manual", "Passive">>

\* ------------------------------------------------------------- Python values
\* A Python value as json.loads produces it.  A str is a sequence of
\* characters so that the substring test of `in` is computed, not assumed.
None == [t |-> "null"]
PyBool(b) == [t |-> "bool", b |-> b]
PyInt(n) == [t |-> "num", n |-> n]
PyStr(s) == [t |-> "str", s |-> s]
PyList(a) == [t |-> "arr", a |-> a]
PyDict(o) == [t |-> "obj", o |-> o]
EmptyDict == PyDict([k \in {} |-> None])

s_result == <<"r", "e", "s", "u", "l", "t">>
s_error == <<"e", "r", "r", "o", "r">>
s_set_result == <<"s", "e", "t", "_">> \o s_result
s_mode == <<"m", "o", "d", "e">>
s_device == <<"d", "e", "v", "i", "c", "e">>
s_ble_mac == <<"b", "l", "e", "_", "m", "a", "c">>
s_ver == <<"v", "e", "r">>
s_unknown == <<"u", "n", "k", "n", "o", "w", "n">>
s_Unknown == <<"U", "n", "k", "n", "o", "w", "n">>
\* The keys the entities read in what the device reported
s_soc == <<"s", "o", "c">>
s_bat_temp == <<"b", "a", "t", "_", "t", "e", "m", "p">>
s_bat_capacity == <<"b", "a", "t", "_", "c", "a", "p", "a", "c", "i", "t", "y">>
s_rated_capacity == <<"r", "a", "t", "e", "d", "_", "c", "a", "p", "a", "c", "i", "t", "y">>
s_ongrid_power == <<"o", "n", "g", "r", "i", "d", "_", "p", "o", "w", "e", "r">>
s_offgrid_power == <<"o", "f", "f", "g", "r", "i", "d", "_", "p", "o", "w", "e", "r">>
s_a_power == <<"a", "_", "p", "o", "w", "e", "r">>
s_b_power == <<"b", "_", "p", "o", "w", "e", "r">>
s_c_power == <<"c", "_", "p", "o", "w", "e", "r">>
s_total_power == <<"t", "o", "t", "a", "l", "_", "p", "o", "w", "e", "r">>
s_wifi_name == <<"w", "i", "f", "i", "_", "n", "a", "m", "e">>
s_charg_flag == <<"c", "h", "a", "r", "g", "_", "f", "l", "a", "g">>
s_dischrg_flag == <<"d", "i", "s", "c", "h", "r", "g", "_", "f", "l", "a", "g">>
s_Marstek_Device ==
    <<"M", "a", "r", "s", "t", "e", "k", " ", "D", "e", "v", "i", "c", "e">>

\* bool(v): Python truthiness
Truthy(v) ==
    CASE v.t = "null" -> FALSE
      [] v.t = "bool" -> v.b
      [] v.t = "num" -> v.n # 0
      [] v.t = "float" -> v.n # 0
      [] v.t = "str" -> Len(v.s) > 0
      [] v.t = "arr" -> Len(v.a) > 0
      [] v.t = "obj" -> DOMAIN v.o # {}

\* needle in haystack for two sequences of characters (str.__contains__)
IsSubstring(needle, hay) ==
    \E i \in 0..(Len(hay) - Len(needle)) :
        \A j \in 1..Len(needle) : hay[i + j] = needle[j]

\* An evaluation either yields a value or raises an exception.
Ok(v) == [exc |-> "none", val |-> v]
Raise(e) == [exc |-> e, val |-> None]

\* `key in container` (key a str)
PyIn(key, c) ==
    CASE c.t = "obj" -> Ok(PyBool(key \in DOMAIN c.o))
      [] c.t = "arr" -> Ok(PyBool(\E i \in 1..Len(c.a) : c.a[i] = PyStr(key)))
      [] c.t = "str" -> Ok(PyBool(IsSubstring(key, c.s)))
      [] OTHER -> Raise("TypeError")

\* container[key] (key a str)
PyGetItem(c, key) ==
    CASE c.t = "obj" -> IF key \in DOMAIN c.o THEN Ok(c.o[key]) ELSE Raise("KeyError")
      [] OTHER -> Raise("TypeError")

\* value.keys()
PyKeys(v) == IF v.t = "obj" THEN Ok(None) ELSE Raise("AttributeError")

\* value.get(key): the value, or None when the key is missing
PyGet(v, key) ==
    IF v.t = "obj"
    THEN Ok(IF key \in DOMAIN v.o THEN v.o[key] ELSE None)
    ELSE Raise("AttributeError")

\* value.get(key, default)
PyGetD(v, key, default) ==
    IF v.t = "obj"
    THEN Ok(IF key \in DOMAIN v.o THEN v.o[key] ELSE default)
    ELSE Raise("AttributeError")

\* isinstance(exception, class) over the exception classes the client and
\* its callers meet
ExcClasses == {"timeout", "ConnectionResetError", "OSError", "JSONDecodeError",
               "TypeError", "AttributeError", "KeyError", "UpdateFailed",
               "ConnectionRefusedError", "CannotConnect", "InvalidDevice"}
IsInstance(e, cls) ==
    \/ e = cls
    \/ cls = "Exception" /\ e \in ExcClasses
    \/ cls = "OSError" /\ e \in {"timeout", "ConnectionResetError", "ConnectionRefusedError"}

\* ------------------------------------------------------------- datagrams
\* A reply datagram: bytes that are JSON text for the value `val`, or bytes
\* that are not JSON text at all.
Junk == [json |-> FALSE, val |-> None]
Json(v) == [json |-> TRUE, val |-> v]
Obj1(k, v) == PyDict([x \in {k} |-> v])
Obj2(k1, v1, k2, v2) == PyDict([x \in {k1, k2} |-> IF x = k1 THEN v1 ELSE v2])

SetResult(v) == Obj1(s_set_result, v)
ResultReplies ==
    { Json(Obj1(s_result, SetResult(PyBool(TRUE)))),
      Json(Obj1(s_result, SetResult(PyBool(FALSE)))),
      Json(Obj1(s_result, SetResult(PyInt(1)))),
      Json(Obj1(s_result, Obj1(s_mode, PyInt(1)))),
      Json(Obj1(s_result, EmptyDict)),
      Json(Obj2(s_result, SetResult(PyBool(TRUE)), s_error, PyInt(5))) }
OddResultReplies ==
    { Json(Obj1(s_result, PyInt(5))),
      Json(Obj1(s_result, PyList(<<PyInt(1)>>))) }
ErrorReplies == { Json(Obj1(s_error, PyInt(5))) }
PassthroughReplies ==
    { Json(SetResult(PyBool(TRUE))),
      Json(EmptyDict),
      Json(PyList(<<PyInt(1)>>)),
      Json(PyList(<< >>)),
      Json(PyStr(<<"o", "k">>)) }
OtherReplies ==
    { Junk,
      Json(PyInt(5)),
      Json(None),
      Json(PyList(<<PyStr(s_result)>>)),
      Json(PyStr(<<"x">> \o s_result)) }
AllReplies ==
    ResultReplies \cup OddResultReplies \cup ErrorReplies
        \cup PassthroughReplies \cup OtherReplies
PollReplies ==
    { Json(Obj1(s_result, Obj1(s_mode, PyInt(1)))),
      Json(Obj1(s_error, PyInt(5))),
      Json(PyList(<<PyInt(1)>>)),
      Json(PyInt(5)),
      Junk }
CoreReplies ==
    { Json(Obj1(s_result, SetResult(PyBool(TRUE)))),
      Json(Obj1(s_error, PyInt(5))) }

\* What a device reports, the same object for every command, with the
\* grid power p; then a report that lacks fields and holds null, and a
\* reply that is no report.  A command that times out yields None.
DictOf(kv) ==
    PyDict([k \in {kv[i][1] : i \in DOMAIN kv} |->
               kv[CHOOSE i \in DOMAIN kv : kv[i][1] = k][2]])
Report(p) ==
    DictOf(<< <<s_device, PyStr(<<"V", "3">>)>>, <<s_ver, PyInt(3)>>,
              <<s_soc, PyInt(50)>>, <<s_bat_temp, PyInt(255)>>,
              <<s_bat_capacity, PyInt(256)>>, <<s_charg_flag, PyBool(TRUE)>>,
              <<s_dischrg_flag, PyInt(0)>>, <<s_mode, PyStr(<<"A", "I">>)>>,
              <<s_ongrid_power, p>> >>)
EntityReplies ==
    { Json(Obj1(s_result, Report(PyInt(0 - 5)))),
      Json(Obj1(s_result, Report(PyInt(7)))),
      Json(Obj1(s_result, Obj1(s_ongrid_power, None))),
      Json(PyList(<<PyInt(1)>>)) }

\* response_data.decode('utf-8', errors='ignore') never raises; json.loads
\* raises JSONDecodeError on text that is not JSON.
json_loads(d) == IF d.json THEN Ok(d.val) ELSE Raise("JSONDecodeError")

\* The dispatch on the parsed response.  The debug call of the `result`
\* branch evaluates response["result"].keys() before the return.
Dispatch(response) ==
    LET hasResult == PyIn(s_result, response)
        inner == PyGetItem(response, s_result)
        hasError == PyIn(s_error, response)
        err == PyGetItem(response, s_error)
    IN  IF hasResult.exc # "none" THEN hasResult
        ELSE IF hasResult.val.b
        THEN IF inner.exc # "none" THEN inner
             ELSE IF PyKeys(inner.val).exc # "none" THEN PyKeys(inner.val)
             ELSE Ok(inner.val)
        ELSE IF hasError.exc # "none" THEN hasError
        ELSE IF hasError.val.b
        THEN IF err.exc # "none" THEN err ELSE Ok(None)
        ELSE Ok(response)

\* The except clauses of _send_command: the inner try around recvfrom and
\* the parse, the outer try around the whole exchange.  Each returns None.
InnerHandlers == {"timeout", "ConnectionResetError"}
OuterHandlers_NoCatchAll == {"JSONDecodeError"}
OuterHandlers == {"JSONDecodeError", "Exception"}
Caught(r, handlers) ==
    IF r.exc # "none" /\ \E cls \in handlers : IsInstance(r.exc, cls)
    THEN Ok(None)
    ELSE r

\* What _send_command returns (or raises) once recvfrom has completed with
\* `got`: a datagram, or an exception raised by recvfrom.
RecvResult_TimeoutEscapes(got) ==
    LET parsed == IF got.exc # "none" THEN Raise(got.exc) ELSE json_loads(got.dgram)
        body == IF parsed.exc # "none" THEN parsed ELSE Dispatch(parsed.val)
    IN  IF body.exc = "timeout" THEN body
        ELSE Caught(Caught(body, InnerHandlers), OuterHandlers)
RecvResult(got) ==
    LET parsed == IF got.exc # "none" THEN Raise(got.exc) ELSE json_loads(got.dgram)
        body == IF parsed.exc # "none" THEN parsed ELSE Dispatch(parsed.val)
    IN  Caught(Caught(body, InnerHandlers), OuterHandlers)

\* What _send_command returns (or raises) when sendto, or the evaluation of
\* self._sock.sendto / self._sock.recvfrom, raised `e`.
SendFailResult_Escapes(e) == Raise(e)
SendFailResult(e) == Caught(Raise(e), OuterHandlers)

\* The check of set_es_mode on the value _send_command returned
SetModeCheck(result) ==
    IF ~Truthy(result) THEN Ok(PyBool(FALSE))
    ELSE IF PyGet(result, s_set_result).exc # "none" THEN PyGet(result, s_set_result)
    ELSE Ok(PyBool(PyGet(result, s_set_result).val = PyBool(TRUE)))

\* ------------------------------------------------------------- state
Tasks == {"poll", "user"}
SockIds == 1..MaxSockets

VARIABLES
    sock,        \* self._sock: 0 is None, otherwise the id of a socket
    connected,   \* self._connected
    sockets,     \* every socket the client created: its state and its port
    rx,          \* the receive buffer of each socket
    wire,        \* requests transmitted and not answered (yet, or ever)
    nreq,        \* number of request datagrams transmitted so far
    ncalls,      \* number of top-level calls started so far
    refresh,     \* coordinator.async_request_refresh() has been called
    task         \* the coroutine each task is running and where it stands

vars == <<sock, connected, sockets, rx, wire, nreq, ncalls, refresh, task>>

NoParams == << >>
NoReq == [id |-> 0, method |-> "", params |-> NoParams]
Frame(f, req) == [f |-> f, req |-> req]
NoGhost == [rq |-> 0, re |-> 0, at |-> 0]
EmptySnapshot == [device |-> None, battery |-> None, es_mode |-> None]
NoGhosts == [device |-> NoGhost, battery |-> NoGhost, es_mode |-> NoGhost]
NoArg == [mode |-> "", config |-> NoParams]
NoOut ==
    [ op |-> "none", arg |-> NoArg, exc |-> "none", val |-> None,
      conn |-> "none", rq |-> 0, re |-> 0, got |-> Junk, sent |-> 0, rcvs |-> 0,
      calls |-> << >>, rf |-> 0 ]

IdleTask ==
    [ op |-> "none",        \* the top-level call in progress
      arg |-> NoArg,        \* the mode and config it was called with, if any
      pc |-> "idle",        \* idle, sending (await sendto), receiving (await recvfrom)
      stack |-> << >>,      \* the callers awaiting the innermost _send_command
      req |-> NoReq,        \* the request of the innermost _send_command
      rsock |-> 0,          \* the socket whose sendto / recvfrom is running
      conn |-> "none",      \* what the implicit connect of this _send_command
                            \* returned ("true", "false"), "none" if it ran none
      rq |-> 0,             \* number of the request this _send_command transmitted
      re |-> 0,             \* number of the request the received datagram answers
      got |-> Junk,         \* the datagram this _send_command received, if re # 0
      calls |-> << >>,      \* the client methods a caller outside the client
                            \* (validate_input, async_select_option) has
                            \* awaited so far, each with what it returned
      rf |-> 0,             \* async_request_refresh() calls of the top-level call
      sent |-> 0,           \* request datagrams the top-level call transmitted
      rcvs |-> 0,           \* recvfrom calls of the top-level call that completed
      data |-> EmptySnapshot,   \* the values get_all_data has collected
      gh |-> NoGhosts,      \* for each of them, rq and re of the command and
                            \* its place among the commands that have returned
      out |-> NoOut ]       \* how the last top-level call ended, with conn, rq,
                            \* re and got of the last _send_command it ran

\* What a synchronous stretch of code of task t reads and writes
Ctx(t) ==
    [ sock |-> sock, connected |-> connected, sockets |-> sockets, rx |-> rx,
      refresh |-> refresh, tk |-> task[t] ]

Commit(t, c) ==
    /\ sock' = c.sock
    /\ connected' = c.connected
    /\ sockets' = c.sockets
    /\ rx' = c.rx
    /\ refresh' = c.refresh
    /\ task' = [task EXCEPT ![t] = c.tk]

Push(c, fr) == [c EXCEPT !.tk.stack = Append(@, fr)]
Pop(c) == [c EXCEPT !.tk.stack = SubSeq(@, 1, Len(@) - 1)]

\* What the operating system does in a stretch of code: whether a socket can
\* be created, and how binding it goes (the configured port, the ephemeral
\* port after the configured one was refused, or both refused).
Envs ==
    { [create |-> FALSE, bind |-> "fail", close |-> "none"],
      [create |-> TRUE, bind |-> "cfg", close |-> "none"],
      [create |-> TRUE, bind |-> "eph", close |-> "none"],
      [create |-> TRUE, bind |-> "fail", close |-> "none"] }

Created(c) == {i \in SockIds : c.sockets[i].st # "unused"}

\* The request object _send_command builds: `params or {}`, replaced by the
\* default when empty.
Request_Incrementing(command, params) ==
    [ id |-> nreq + 1,
      method |-> command,
      params |-> IF DOMAIN params = {} THEN [ble_mac |-> "0"] ELSE params ]
Request(command, params) ==
    [ id |-> 1,
      method |-> command,
      params |-> IF DOMAIN params = {} THEN [ble_mac |-> "0"] ELSE params ]

\* _send_command, from the built request to the await of sendto
Submit(c, command, params) ==
    [c EXCEPT !.tk.pc = "sending",
              !.tk.req = Request(command, params),
              !.tk.rsock = c.sock,
              !.tk.rq = 0,
              !.tk.re = 0,
              !.tk.got = Junk]

\* The ES.SetMode params set_es_mode builds for `mode` and `config`
CfgKey(mode) ==
    CASE mode = "Auto" -> {"auto_cfg"}
      [] mode = "AI" -> {"ai_cfg"}
      [] mode = "Manual" -> {"manual_cfg"}
      [] mode = "Passive" -> {"passive_cfg"}
      [] OTHER -> {}
DefaultCfg_AllEnable(k) == [enable |-> 1]
DefaultCfg(k) ==
    CASE k = "auto_cfg" -> [enable |-> 1]
      [] k = "ai_cfg" -> [enable |-> 1]
      [] k = "manual_cfg" ->
            [ time_num |-> 1, start_time |-> "08:30", end_time |-> "20:30",
              week_set |-> 127, power |-> 100, enable |-> 1 ]
      [] k = "passive_cfg" -> [power |-> 100, cd_time |-> 300]
SetModeParams_IgnoresOverride(mode, config) ==
    [ id |-> 1,
      config |->
        [ k \in {"mode"} \cup CfgKey(mode) |->
            IF k = "mode" THEN mode ELSE DefaultCfg(k) ] ]
SetModeParams(mode, config) ==
    [ id |-> 1,
      config |->
        [ k \in {"mode"} \cup CfgKey(mode) |->
            IF k = "mode" THEN mode
            ELSE IF k \in DOMAIN config THEN config[k] ELSE DefaultCfg(k) ] ]

\* disconnect(): close the socket if there is one, clear the handle.  The
\* finally clause clears the handle and the flag whether close() returned or
\* raised; close() gives the descriptor up before it reports an error.
disconnect(c) ==
    IF c.sock = 0 THEN c
    ELSE [c EXCEPT !.sockets[c.sock].st = "closed",
                   !.rx[c.sock] = << >>,
                   !.sock = 0,
                   !.connected = FALSE]

\* How self._sock.close() ends, and what disconnect() then returns or
\* raises: its except clause catches Exception.
CloseOutcomes == {"none", "OSError"}
DisconnectHandlers_None == {}
DisconnectHandlers == {"Exception"}
DisconnectResult(c, cl) ==
    IF c.sock = 0 \/ cl = "none" THEN Ok(None)
    ELSE Caught(Raise(cl), DisconnectHandlers)

\* The environments of a stretch of code that can reach a close(): those of
\* validate_input, whose finally clause awaits disconnect()
ClosingEnvs == Envs \cup {[e EXCEPT !.close = "OSError"] : e \in Envs}
EnvsOf(op) == IF op = "validate_input" THEN ClosingEnvs ELSE Envs

\* validate_input: the except clauses of its try turn a timeout, a refused
\* connection and any other OSError into CannotConnect
ValidateHandlers == {"timeout", "ConnectionRefusedError", "OSError"}
ValidateCatch(r) ==
    IF r.exc # "none" /\ \E cls \in ValidateHandlers : IsInstance(r.exc, cls)
    THEN Raise("CannotConnect")
    ELSE r

\* validate_input on what get_device_info returned
InfoResult(v) ==
    IF ~Truthy(v) THEN Raise("InvalidDevice")
    ELSE LET name == PyGetD(v, s_device, PyStr(s_Marstek_Device))
             mac == PyGetD(v, s_ble_mac, PyStr(s_unknown))
         IN  IF name.exc # "none" THEN name
             ELSE IF mac.exc # "none" THEN mac
             ELSE Ok(PyDict([title |-> name.val, serial |-> mac.val, model |-> name.val]))

\* ------------------------------------------------------------- the client
\* The three operators below run the code of one task from the point where
\* it resumes up to its next await, or to the end of its top-level call.
RECURSIVE Unwind(_, _, _)
RECURSIVE _send_command(_, _, _, _)

\* validate_input leaves its try block with r: the except clauses, then the
\* finally clause, which awaits disconnect()
ValidateExit_NoFinally(c, r, env) == Unwind(c, ValidateCatch(r), env)
ValidateExit(c, r, env) ==
    LET d == DisconnectResult(c, env.close)
    IN  Unwind(disconnect(c), IF d.exc # "none" THEN d ELSE ValidateCatch(r), env)

\* The caller records the client method it awaited and what it got
Returned(c, f, r) == [c EXCEPT !.tk.calls = Append(@, [f |-> f, r |-> r])]

\* The except clauses of connect(): both return False
ConnectHandlers == {"OSError", "Exception"}

connect_FallbackThenFail(c, env) ==
    LET n == Cardinality(Created(c)) + 1
        made == [c EXCEPT !.sock = n,
                          !.sockets[n] =
                              [ st |-> "open",
                                port |-> IF env.bind = "fail" THEN "none" ELSE env.bind ]]
    IN  IF ~env.create \/ n > MaxSockets
        THEN Unwind(c, Ok(PyBool(FALSE)), env)
        ELSE IF env.bind # "cfg"
        THEN Unwind(made, Ok(PyBool(FALSE)), env)
        ELSE _send_command(Push([made EXCEPT !.connected = TRUE], Frame("probe", NoReq)),
                           CMD_GET_DEVICE, NoParams, env)

\* connect(), up to the await inside its probe.  socket() or both bind()
\* calls may raise OSError; the handle is assigned before the bind.
connect(c, env) ==
    LET n == Cardinality(Created(c)) + 1
        made == [c EXCEPT !.sock = n,
                          !.sockets[n] =
                              [ st |-> "open",
                                port |-> IF env.bind = "fail" THEN "none" ELSE env.bind ]]
    IN  IF ~env.create \/ n > MaxSockets
        THEN Unwind(c, Ok(PyBool(FALSE)), env)
        ELSE IF env.bind = "fail"
        THEN Unwind(made, Ok(PyBool(FALSE)), env)
        ELSE _send_command(Push([made EXCEPT !.connected = TRUE], Frame("probe", NoReq)),
                           CMD_GET_DEVICE, NoParams, env)

\* The try block of _send_command up to the await of sendto; evaluating
\* self._sock.sendto on None raises AttributeError inside the try.
TrySend(c, command, params, env) ==
    IF c.sock = 0
    THEN Unwind(c, SendFailResult("AttributeError"), env)
    ELSE Submit(c, command, params)

\* _send_command from its entry: the implicit connect when there is no socket
_send_command(c, command, params, env) ==
    IF c.sock = 0
    THEN connect(Push(c, Frame("implicit", Request(command, params))), env)
    ELSE TrySend([c EXCEPT !.tk.conn = "none"], command, params, env)

\* get_all_data: the three awaits of the dict display, in order
NextSlot_EsModeFirst(f) ==
    CASE f = "gad_device" -> "gad_es_mode"
      [] f = "gad_es_mode" -> "gad_battery"
      [] f = "gad_battery" -> "done"
NextSlot(f) ==
    CASE f = "gad_device" -> "gad_battery"
      [] f = "gad_battery" -> "gad_es_mode"
      [] f = "gad_es_mode" -> "done"
SlotKey(f) ==
    CASE f = "gad_device" -> "device"
      [] f = "gad_battery" -> "battery"
      [] f = "gad_es_mode" -> "es_mode"
SlotCommand(f) ==
    CASE f = "gad_device" -> CMD_GET_DEVICE
      [] f = "gad_battery" -> CMD_BAT_STATUS
      [] f = "gad_es_mode" -> CMD_ES_GET_MODE
SlotParams(f) == IF f = "gad_device" THEN NoParams ELSE [id |-> 0]

get_all_data(c, env) ==
    _send_command(
        Push([c EXCEPT !.tk.data = EmptySnapshot, !.tk.gh = NoGhosts],
             Frame("gad_device", NoReq)),
        SlotCommand("gad_device"), SlotParams("gad_device"), env)

set_es_mode(c, mode, config, env) ==
    _send_command(Push(c, Frame("set_es_mode", NoReq)),
                  CMD_ES_SET_MODE, SetModeParams(mode, config), env)

\* _async_update_data on what get_all_data returned or raised
UpdateResult(r) ==
    IF r.exc # "none" THEN Raise("UpdateFailed")
    ELSE IF ~Truthy(r.val) THEN Raise("UpdateFailed")
    ELSE r

\* `if not await self.connect()` of _send_command, on what connect() returned
ConnectFailed_Ignored(v) == FALSE
ConnectFailed(v) == ~Truthy(v)

\* `if result:` of async_select_option, on what set_es_mode returned
SelectRefresh_Always(v) == TRUE
SelectRefresh(v) == Truthy(v)

\* connect() on what its probe returned or raised
ProbeResult(r) ==
    IF r.exc # "none"
    THEN IF \E cls \in ConnectHandlers : IsInstance(r.exc, cls)
         THEN Ok(PyBool(FALSE)) ELSE r
    ELSE Ok(PyBool(Truthy(r.val)))

\* The innermost call has ended with r: resume its caller, and so on up to
\* the next await or to the end of the top-level call.
Unwind(c, r, env) ==
    IF c.tk.stack = << >>
    THEN [c EXCEPT !.tk = [IdleTask EXCEPT
                              !.gh = c.tk.gh,
                              !.out = [ op |-> c.tk.op, arg |-> c.tk.arg,
                                        exc |-> r.exc, val |-> r.val,
                                        conn |-> c.tk.conn,
                                        calls |-> c.tk.calls, rf |-> c.tk.rf,
                                        rq |-> c.tk.rq, re |-> c.tk.re,
                                        got |-> c.tk.got,
                                        sent |-> c.tk.sent, rcvs |-> c.tk.rcvs ]]]
    ELSE
    LET fr == c.tk.stack[Len(c.tk.stack)]
        up == Pop(c)
        f == fr.f
    IN  CASE f = "probe" ->
               \* rq, re and got go on describing the probe when connect()
               \* is the top-level call, and are reset for the command of an
               \* implicit connect
               Unwind(IF up.tk.stack = << >> THEN up
                      ELSE [up EXCEPT !.tk.rq = 0, !.tk.re = 0, !.tk.got = Junk],
                      ProbeResult(r), env)
          [] f = "implicit" ->
               IF r.exc # "none" THEN Unwind(up, r, env)
               ELSE LET ret == [up EXCEPT
                                  !.tk.conn = IF r.val.b THEN "true" ELSE "false"]
                    IN  IF ConnectFailed(r.val) THEN Unwind(ret, Ok(None), env)
                        ELSE TrySend(ret, fr.req.method, fr.req.params, env)
          [] f \in {"gad_device", "gad_battery", "gad_es_mode"} ->
               IF r.exc # "none" THEN Unwind(up, r, env)
               ELSE LET got == [up EXCEPT
                                  !.tk.data[SlotKey(f)] = r.val,
                                  !.tk.gh[SlotKey(f)] =
                                      [ rq |-> c.tk.rq, re |-> c.tk.re,
                                        at |-> 1 + Cardinality(
                                            {k \in DOMAIN up.tk.gh : up.tk.gh[k].at # 0}) ]]
                    IN  IF NextSlot(f) = "done"
                        THEN Unwind(got, Ok(PyDict(got.tk.data)), env)
                        ELSE _send_command(Push(got, Frame(NextSlot(f), NoReq)),
                                           SlotCommand(NextSlot(f)),
                                           SlotParams(NextSlot(f)), env)
          [] f = "set_es_mode" ->
               IF r.exc # "none" THEN Unwind(up, r, env)
               ELSE Unwind(up, SetModeCheck(r.val), env)
          [] f = "update" -> Unwind(up, UpdateResult(r), env)
          [] f = "vi_connect" ->
               LET rec == Returned(up, "connect", r)
               IN  IF r.exc # "none" THEN ValidateExit(rec, r, env)
                   ELSE IF ~Truthy(r.val)
                   THEN ValidateExit(rec, Raise("CannotConnect"), env)
                   ELSE _send_command(Push(rec, Frame("vi_info", NoReq)),
                                      CMD_GET_DEVICE, NoParams, env)
          [] f = "vi_info" ->
               LET rec == Returned(up, "get_device_info", r)
               IN  ValidateExit(rec, IF r.exc # "none" THEN r ELSE InfoResult(r.val), env)
          [] f = "select" ->
               LET rec == Returned(up, "set_es_mode", r)
               IN  IF r.exc # "none" THEN Unwind(rec, r, env)
                   ELSE IF SelectRefresh(r.val)
                   THEN Unwind([rec EXCEPT !.refresh = TRUE, !.tk.rf = @ + 1],
                               Ok(None), env)
                   ELSE Unwind(rec, Ok(None), env)

\* ------------------------------------------------------------- entities
\* The characters of a mode name of ES_MODES
ModeStr(m) ==
    CASE m = "Auto" -> <<"A", "u", "t", "o">>
      [] m = "AI" -> <<"A", "I">>
      [] m = "Manual" -> <<"M", "a", "n", "u", "a", "l">>
      [] m = "Passive" -> <<"P", "a", "s", "s", "i", "v", "e">>

\* Python numbers: int, bool (an int) and float, a float being n / d
IsNumber(v) == v.t \in {"num", "bool", "float"}
Num(v) == IF v.t = "bool" THEN (IF v.b THEN 1 ELSE 0) ELSE v.n
Den(v) == IF v.t = "float" THEN v.d ELSE 1
Abs(n) == IF n < 0 THEN 0 - n ELSE n
RECURSIVE Gcd(_, _)
Gcd(a, b) == IF b = 0 THEN a ELSE Gcd(b, a % b)
PyFloat(n, d) ==
    LET g == Gcd(Abs(n), d) IN [t |-> "float", n |-> n \div g, d |-> d \div g]

\* value / 10.0 and value * 10.0
PyDiv10(v) ==
    IF IsNumber(v) THEN Ok(PyFloat(Num(v), Den(v) * 10)) ELSE Raise("TypeError")
PyMul10(v) ==
    IF IsNumber(v) THEN Ok(PyFloat(Num(v) * 10, Den(v))) ELSE Raise("TypeError")

\* value < 0, value > 0 and abs(value)
PyLt0(v) == IF IsNumber(v) THEN Ok(PyBool(Num(v) < 0)) ELSE Raise("TypeError")
PyGt0(v) == IF IsNumber(v) THEN Ok(PyBool(Num(v) > 0)) ELSE Raise("TypeError")
PyAbs(v) ==
    CASE v.t = "float" -> Ok(PyFloat(Abs(v.n), v.d))
      [] v.t \in {"num", "bool"} -> Ok(PyInt(Abs(Num(v))))
      [] OTHER -> Raise("TypeError")

IsDict(v) == v.t = "obj"

\* data.get(category, {}).get(key) and data.get(category, {}).get(key, default)
Field(data, category, key) ==
    LET cat == PyGetD(data, category, EmptyDict)
    IN  IF cat.exc # "none" THEN cat ELSE PyGet(cat.val, key)
FieldD(data, category, key, default) ==
    LET cat == PyGetD(data, category, EmptyDict)
    IN  IF cat.exc # "none" THEN cat ELSE PyGetD(cat.val, key, default)

\* data.get("es_mode", {}).get(key) if isinstance(data.get("es_mode"), dict)
\* else None
EsField(data, key) ==
    LET es == PyGet(data, "es_mode")
    IN  IF es.exc # "none" THEN es
        ELSE IF IsDict(es.val) THEN Field(data, "es_mode", key)
        ELSE Ok(None)

\* X / 10.0 if X is not None else None, and the same with * 10.0
Tenth(x) ==
    IF x.exc # "none" THEN x ELSE IF x.val # None THEN PyDiv10(x.val) ELSE Ok(None)
Tenfold(x) ==
    IF x.exc # "none" THEN x ELSE IF x.val # None THEN PyMul10(x.val) ELSE Ok(None)

\* value_fn of battery_charging_power and of battery_discharging_power
ChargingPower(data) ==
    LET es == PyGet(data, "es_mode")
    IN  IF es.exc # "none" THEN es
        ELSE IF ~IsDict(es.val) THEN Ok(PyInt(0))
        ELSE LET p == FieldD(data, "es_mode", s_ongrid_power, PyInt(0))
                 neg == IF p.exc # "none" THEN p ELSE PyLt0(p.val)
             IN  IF neg.exc # "none" THEN neg
                 ELSE IF neg.val.b THEN PyAbs(p.val) ELSE Ok(PyInt(0))
DischargingPower(data) ==
    LET es == PyGet(data, "es_mode")
    IN  IF es.exc # "none" THEN es
        ELSE IF ~IsDict(es.val) THEN Ok(PyInt(0))
        ELSE LET p == FieldD(data, "es_mode", s_ongrid_power, PyInt(0))
                 pos == IF p.exc # "none" THEN p ELSE PyGt0(p.val)
             IN  IF pos.exc # "none" THEN pos
                 ELSE IF pos.val.b THEN p ELSE Ok(PyInt(0))

\* SENSOR_TYPES: the value_fn of the sensor with this key
SensorKeys ==
    { "battery_soc", "battery_temperature", "battery_capacity",
      "battery_rated_capacity", "es_mode", "grid_power",
      "battery_charging_power", "battery_discharging_power", "offgrid_power",
      "phase_a_power", "phase_b_power", "phase_c_power", "total_power",
      "firmware_version", "wifi_ssid" }
SensorValue(key, data) ==
    CASE key = "battery_soc" -> Field(data, "battery", s_soc)
      [] key = "battery_temperature" -> Tenth(Field(data, "battery", s_bat_temp))
      [] key = "battery_capacity" -> Tenfold(Field(data, "battery", s_bat_capacity))
      [] key = "battery_rated_capacity" -> Field(data, "battery", s_rated_capacity)
      [] key = "es_mode" -> EsField(data, s_mode)
      [] key = "grid_power" -> EsField(data, s_ongrid_power)
      [] key = "battery_charging_power" -> ChargingPower(data)
      [] key = "battery_discharging_power" -> DischargingPower(data)
      [] key = "offgrid_power" -> EsField(data, s_offgrid_power)
      [] key = "phase_a_power" -> EsField(data, s_a_power)
      [] key = "phase_b_power" -> EsField(data, s_b_power)
      [] key = "phase_c_power" -> EsField(data, s_c_power)
      [] key = "total_power" -> EsField(data, s_total_power)
      [] key = "firmware_version" -> Field(data, "device", s_ver)
      [] key = "wifi_ssid" -> Field(data, "device", s_wifi_name)

\* BINARY_SENSOR_TYPES: the value_fn of the binary sensor with this key
BinaryKeys == {"battery_charging_allowed", "battery_discharging_allowed"}
BinaryValue(key, data) ==
    CASE key = "battery_charging_allowed" -> Field(data, "battery", s_charg_flag)
      [] key = "battery_discharging_allowed" -> Field(data, "battery", s_dischrg_flag)

\* MarstekSensor.native_value and MarstekBinarySensor.is_on
native_value(key, data) == SensorValue(key, data)
is_on(key, data) ==
    LET value == BinaryValue(key, data)
    IN  IF value.exc # "none" THEN value
        ELSE IF value.val = None THEN Ok(None)
        ELSE Ok(PyBool(Truthy(value.val)))

\* MarstekESModeSelect.current_option
current_option(data) ==
    LET es == PyGet(data, "es_mode")
    IN  IF es.exc # "none" THEN es
        ELSE IF ~IsDict(es.val) THEN Ok(None)
        ELSE LET mode == PyGet(es.val, s_mode)
             IN  IF \E i \in DOMAIN ES_MODES : PyStr(ModeStr(ES_MODES[i])) = mode.val
                 THEN mode ELSE Ok(None)

\* The device info the three entity classes compute in __init__ from the
\* coordinator's data; sw_version is str(firmware_ver), which raises for
\* no value
Constructors == {"MarstekSensor", "MarstekBinarySensor", "MarstekESModeSelect"}
DeviceInfo(data) ==
    LET device_info == PyGetD(data, "device", EmptyDict)
        device_name == IF device_info.exc # "none" THEN device_info
                       ELSE PyGetD(device_info.val, s_device, PyStr(s_Unknown))
        firmware_ver == IF device_name.exc # "none" THEN device_name
                        ELSE PyGetD(device_info.val, s_ver, PyStr(s_Unknown))
    IN  IF firmware_ver.exc # "none" THEN firmware_ver
        ELSE Ok(PyDict([model |-> device_name.val, firmware_ver |-> firmware_ver.val]))

\* The category of the snapshot an entity reads
CategoryOf(e) ==
    CASE e \in {"battery_soc", "battery_temperature", "battery_capacity",
                "battery_rated_capacity"} \cup BinaryKeys -> "battery"
      [] e \in {"firmware_version", "wifi_ssid"} \cup Constructors -> "device"
      [] OTHER -> "es_mode"

\* What an entity computes from the coordinator's data
Entities == SensorKeys \cup BinaryKeys \cup {"current_option"} \cup Constructors
EntityResult(e, data) ==
    CASE e \in SensorKeys -> native_value(e, data)
      [] e \in BinaryKeys -> is_on(e, data)
      [] e = "current_option" -> current_option(data)
      [] e \in Constructors -> DeviceInfo(data)

\* ------------------------------------------------------------- actions
Init ==
    /\ sock = 0
    /\ connected = FALSE
    /\ sockets = [i \in SockIds |-> [st |-> "unused", port |-> "none"]]
    /\ rx = [i \in SockIds |-> << >>]
    /\ wire = {}
    /\ nreq = 0
    /\ ncalls = 0
    /\ refresh = FALSE
    /\ task = [t \in Tasks |-> IdleTask]

\* A task that is idle starts the top-level call `op`
Begin(t, op) == [Ctx(t) EXCEPT !.tk.op = op, !.tk.out = NoOut]
BeginWith(t, op, mode, config) ==
    [Begin(t, op) EXCEPT !.tk.arg = [mode |-> mode, config |-> config]]
Start(t) ==
    /\ task[t].pc = "idle"
    /\ ncalls < MaxCalls
    /\ ncalls' = ncalls + 1
    /\ UNCHANGED <<wire, nreq>>

Options == {"Auto", "Manual", "Eco"}
InModes(option) == \E i \in DOMAIN ES_MODES : ES_MODES[i] = option

\* The coordinator's poll: _async_update_data awaits get_all_data
CallUpdate(t) ==
    \E env \in Envs :
        /\ Start(t)
        /\ Commit(t, get_all_data(Push(Begin(t, "update"), Frame("update", NoReq)), env))

\* The select entity: async_select_option(option)
CallSelect(t) ==
    \E option \in Options, env \in Envs :
        /\ Start(t)
        /\ Commit(t,
                  IF InModes(option)
                  THEN set_es_mode(Push(BeginWith(t, "select", option, NoParams),
                                        Frame("select", NoReq)),
                                   option, NoParams, env)
                  ELSE Unwind(BeginWith(t, "select", option, NoParams), Ok(None), env))

\* set_es_mode(mode, config) called directly: with any of the four modes or
\* an unknown one, and with no config (None or {}), with an entry for
\* Passive, with entries for Passive and Auto, or with an entry for Manual.
ModeArgs == {"Auto", "AI", "Manual", "Passive", "Eco"}
PassiveOverride == [power |-> 50, cd_time |-> 60]
Configs ==
    { NoParams,
      [passive_cfg |-> PassiveOverride],
      [passive_cfg |-> PassiveOverride, auto_cfg |-> [enable |-> 0]],
      [manual_cfg |-> [enable |-> 0]] }
CallSetEsMode(t, M, C) ==
    \E mode \in M, config \in C, env \in Envs :
        /\ Start(t)
        /\ Commit(t, set_es_mode(BeginWith(t, "set_es_mode", mode, config),
                                  mode, config, env))

\* An accessor: get_device_info()
CallGetDeviceInfo(t) ==
    \E env \in Envs :
        /\ Start(t)
        /\ Commit(t, _send_command(Begin(t, "get_device_info"),
                                   CMD_GET_DEVICE, NoParams, env))

\* An explicit connect()
CallConnect(t) ==
    \E env \in Envs :
        /\ Start(t)
        /\ Commit(t, connect(Begin(t, "connect"), env))

\* validate_input(hass, data): a client of its own, connect(), then
\* get_device_info(), and disconnect() on the way out
CallValidate(t) ==
    \E env \in ClosingEnvs :
        /\ Start(t)
        /\ Commit(t, connect(Push([Begin(t, "validate_input") EXCEPT
                                      !.sock = 0, !.connected = FALSE],
                                   Frame("vi_connect", NoReq)), env))

\* MarstekDataUpdateCoordinator.async_shutdown: awaits api.disconnect()
async_shutdown(c, env) ==
    [ c |-> Returned(disconnect(c), "disconnect", DisconnectResult(c, env.close)),
      r |-> DisconnectResult(c, env.close) ]

\* async_unload_entry: unloads the platforms and, if that went well, drops
\* the coordinator from hass.data; it returns unload_ok.  The function does
\* not call async_shutdown itself; `hook` is whether the caller then runs
\* the coordinator's async_shutdown as an unload callback of the entry.
\* An entry that is unloaded was set up, so its first refresh has ended.
Loaded == task["poll"].out.op = "update" \/ ncalls >= 2
CallUnload(t) ==
    \E unload_ok \in BOOLEAN, hook \in BOOLEAN, env \in ClosingEnvs :
        /\ Start(t)
        /\ Loaded
        /\ task[t].out.op # "async_unload_entry"
        /\ LET c == Begin(t, "async_unload_entry")
               sd == async_shutdown(c, env)
           IN  Commit(t,
                 IF unload_ok /\ hook
                 THEN Unwind(sd.c, IF sd.r.exc # "none" THEN sd.r
                                   ELSE Ok(PyBool(unload_ok)), env)
                 ELSE Unwind(c, Ok(PyBool(unload_ok)), env))

\* disconnect()
CallDisconnect(t) ==
    \E env \in Envs, cl \in CloseOutcomes :
        /\ Start(t)
        /\ Commit(t, Unwind(disconnect(Begin(t, "disconnect")),
                            DisconnectResult(Ctx(t), cl), env))

\* The sendto of task t completes: the datagram is on the wire, or sendto
\* raised OSError.  The code then goes on to the await of recvfrom.
SendDone(t) ==
    /\ task[t].pc = "sending"
    /\ nreq < MaxRequests
    /\ \E ok \in BOOLEAN, env \in EnvsOf(task[t].op) :
        LET c0 == Ctx(t)
            s == c0.tk.rsock
            no == nreq + 1
            c == IF ok /\ sockets[s].st = "open"
                 THEN [c0 EXCEPT !.tk.sent = @ + 1] ELSE c0
        IN  IF ok /\ sockets[s].st = "open"
            THEN /\ wire' = wire \cup {[no |-> no, from |-> s, req |-> c.tk.req]}
                 /\ nreq' = no
                 /\ Commit(t,
                      IF c.sock = 0
                      THEN Unwind([c EXCEPT !.tk.rq = no],
                                  SendFailResult("AttributeError"), env)
                      ELSE [c EXCEPT !.tk.pc = "receiving",
                                     !.tk.rsock = c.sock,
                                     !.tk.rq = no])
            ELSE /\ UNCHANGED <<wire, nreq>>
                 /\ Commit(t, Unwind(c, SendFailResult("OSError"), env))
    /\ UNCHANGED ncalls

\* The recvfrom of task t completes: with the oldest datagram of the buffer
\* if there is one, otherwise with the timeout or a socket error.  The
\* content of a datagram is read by nobody before it is received, so it is
\* drawn (from D) when it is received.
RecvErrors == {"timeout", "ConnectionResetError", "OSError"}
RecvDone(t, D) ==
    /\ task[t].pc = "receiving"
    /\ \E env \in EnvsOf(task[t].op) :
        LET c == [Ctx(t) EXCEPT !.tk.rcvs = @ + 1]
            s == c.tk.rsock
            buf == rx[s]
        IN  IF sockets[s].st = "open" /\ buf # << >>
            THEN \E d \in D :
                   Commit(t,
                     Unwind([c EXCEPT !.rx[s] = Tail(buf), !.tk.re = Head(buf),
                                      !.tk.got = d],
                            RecvResult([exc |-> "none", dgram |-> d]), env))
            ELSE \E e \in RecvErrors :
                   Commit(t, Unwind(c, RecvResult([exc |-> e, dgram |-> Junk]), env))
    /\ UNCHANGED <<wire, nreq, ncalls>>

\* The device answers a request: its reply reaches the buffer of the socket
\* the request came from, if that socket is still open.  The buffer holds,
\* for each datagram, the number of the request it answers.
DeviceReply ==
    \E q \in wire :
        /\ wire' = wire \ {q}
        /\ rx' = IF sockets[q.from].st = "open"
                 THEN [rx EXCEPT ![q.from] = Append(@, q.no)]
                 ELSE rx
        /\ UNCHANGED <<sock, connected, sockets, nreq, ncalls, refresh, task>>

\* A socket no longer referenced by the client or by a running call is
\* closed when the runtime collects it.
Collect ==
    \E i \in SockIds :
        /\ sockets[i].st = "open"
        /\ i # sock
        /\ \A t \in Tasks : task[t].pc = "idle" \/ task[t].rsock # i
        /\ sockets' = [sockets EXCEPT ![i].st = "closed"]
        /\ rx' = [rx EXCEPT ![i] = << >>]
        /\ UNCHANGED <<sock, connected, wire, nreq, ncalls, refresh, task>>

\* The coordinator's poll and the select entity as two tasks on one client
Next ==
    \/ CallUpdate("poll")
    \/ CallSelect("user")
    \/ \E t \in Tasks : SendDone(t)
    \/ \E t \in Tasks : RecvDone(t, CoreReplies)
    \/ DeviceReply

Spec == Init /\ [][Next]_vars

\* One caller using the client call after call, the device free to answer
\* with any datagram
NextCmd ==
    \/ CallSelect("user")
    \/ CallSetEsMode("user", Options, {NoParams})
    \/ CallGetDeviceInfo("user")
    \/ CallConnect("user")
    \/ CallDisconnect("user")
    \/ SendDone("user")
    \/ RecvDone("user", AllReplies)
    \/ DeviceReply
    \/ Collect

SpecCmd == Init /\ [][NextCmd]_vars

\* One caller of get_device_info and disconnect.  recvfrom runs on a socket
\* with settimeout(DEFAULT_TIMEOUT), so a pending recvfrom completes.
NextRecv ==
    \/ CallGetDeviceInfo("user")
    \/ CallDisconnect("user")
    \/ SendDone("user")
    \/ RecvDone("user", PollReplies)
    \/ DeviceReply

SpecRecv ==
    Init /\ [][NextRecv]_vars /\ WF_vars(RecvDone("user", PollReplies))

\* One caller of set_es_mode, with every mode and config
NextMode ==
    \/ CallSetEsMode("user", ModeArgs, Configs)
    \/ SendDone("user")
    \/ RecvDone("user", CoreReplies)
    \/ DeviceReply

SpecMode == Init /\ [][NextMode]_vars

\* Device registration: validate_input, attempt after attempt
NextValidate ==
    \/ CallValidate("user")
    \/ SendDone("user")
    \/ RecvDone("user", PollReplies)
    \/ DeviceReply

SpecValidate == Init /\ [][NextValidate]_vars

\* The coordinator polling until the config entry is unloaded
NextUnload ==
    \/ task["user"].out.op # "async_unload_entry" /\ CallUpdate("poll")
    \/ CallUnload("user")
    \/ SendDone("poll")
    \/ RecvDone("poll", CoreReplies)
    \/ DeviceReply

SpecUnload == Init /\ [][NextUnload]_vars

\* The coordinator polling cycle after cycle, with disconnects in between
NextPoll ==
    \/ CallUpdate("poll")
    \/ CallDisconnect("poll")
    \/ SendDone("poll")
    \/ RecvDone("poll", PollReplies)
    \/ DeviceReply

SpecPoll == Init /\ [][NextPoll]_vars

\* A refresh of the coordinator has ended well and every entity of the
\* entry reads the coordinator's data, one after the other without an
\* await in between: the constructors when the platforms are set up, the
\* values whenever the state of an entity is written.  The call ends with
\* what each of them returned or raised.  What an entity computes depends
\* on that data alone, so the polls are followed up to the first reading.
Evaluate(t) ==
    \E env \in Envs :
        /\ Start(t)
        /\ task["poll"].out.op = "update"
        /\ task["poll"].out.exc = "none"
        /\ Commit(t, Unwind(Begin(t, "entities"),
                            Ok([e \in Entities |->
                                   EntityResult(e, task["poll"].out.val)]), env))

NextEnt ==
    \/ task["user"].out.op = "none" /\ CallUpdate("poll")
    \/ Evaluate("user")
    \/ SendDone("poll")
    \/ RecvDone("poll", EntityReplies)
    \/ DeviceReply

SpecEnt == Init /\ [][NextEnt]_vars

\* ------------------------------------------------------------- properties
Out(t) == task[t].out
Slots == {"device", "battery", "es_mode"}
OpenSockets == {i \in SockIds : sockets[i].st = "open"}

\* The last _send_command of the call that ended in Out(t) received a
\* datagram, and the datagram parses to a JSON object
GotObject(t) == Out(t).re # 0 /\ Out(t).got.json /\ Out(t).got.val.t = "obj"

\* C1: whatever the outcome of the exchange (timeout, port-unreachable
\* rejection, non-JSON payload, JSON that is not an object, failure while
\* sending, failed implicit connect), _send_command, called here through
\* get_device_info, ends by returning a value and never by raising.
C1_SendCommandNeverRaises ==
    \A t \in Tasks : Out(t).op = "get_device_info" => Out(t).exc = "none"

\* A get_device_info call received a datagram and returned None for it
C1_Witness ==
    \E t \in Tasks :
        /\ Out(t).op = "get_device_info"
        /\ Out(t).re # 0
        /\ ~GotObject(t)
        /\ Out(t).exc = "none"
        /\ Out(t).val = None

\* C2: for a reply that parses to a JSON object, _send_command returns the
\* `result` member if the object has one, otherwise None if it has an
\* `error` member, otherwise the object itself.
C2_DispatchOnShape ==
    \A t \in Tasks :
        (Out(t).op = "get_device_info" /\ GotObject(t)) =>
            LET o == Out(t).got.val.o
            IN  /\ Out(t).exc = "none"
                /\ Out(t).val = IF s_result \in DOMAIN o THEN o[s_result]
                                ELSE IF s_error \in DOMAIN o THEN None
                                ELSE Out(t).got.val

\* C3: a request that gets no reply ends when the receive timeout fires:
\* the call returns None, does not raise, and the client keeps its socket,
\* open; and a call waiting for a reply does not wait forever.
C3_TimeoutStep ==
    \A t \in Tasks :
        ( /\ task[t].pc = "receiving"
          /\ task[t].op = "get_device_info"
          /\ rx[task[t].rsock] = << >>
          /\ task[t]' # task[t] )
        => ( /\ Out(t)'.op = "get_device_info"
             /\ Out(t)'.exc = "none"
             /\ Out(t)'.val = None
             /\ sock' = sock
             /\ sock' \in OpenSockets' )
\* C3 (the formula): every such step ends the call as stated, and a call
\* waiting for a reply eventually stops waiting.
C3_NoReplyReturnsNone ==
    /\ [][C3_TimeoutStep]_vars
    /\ \A t \in Tasks : (task[t].pc = "receiving") ~> (task[t].pc # "receiving")

\* A get_device_info call transmitted its request, received nothing and
\* returned None, and the client still holds an open socket
C3_Witness ==
    \E t \in Tasks :
        /\ Out(t).op = "get_device_info"
        /\ Out(t).rq # 0
        /\ Out(t).re = 0
        /\ Out(t).val = None
        /\ sock \in OpenSockets

\* C4: in a snapshot a polling cycle returned, the value under each key is
\* None or comes from the reply to the request that cycle sent for that
\* key; a datagram answering an earlier request is never the source of it.
C4_OwnReplies ==
    \A t \in Tasks :
        (Out(t).op = "update" /\ Out(t).exc = "none") =>
            \A k \in Slots :
                Out(t).val.o[k] # None =>
                    (task[t].gh[k].rq # 0 /\ task[t].gh[k].re = task[t].gh[k].rq)

\* C5: at most one request of the client is waiting for its reply
C5_OneOutstanding ==
    Cardinality({t \in Tasks : task[t].pc = "receiving"}) <= 1

\* C6: get_all_data, called here by _async_update_data, does not raise and
\* returns a mapping with exactly the keys device, battery and es_mode; a
\* command that got no datagram contributes None, so three failed commands
\* give three None values.
C6_SnapshotShape ==
    \A t \in Tasks :
        Out(t).op = "update" =>
            /\ Out(t).exc = "none"
            /\ Out(t).val.t = "obj"
            /\ DOMAIN Out(t).val.o = Slots
            /\ \A k \in Slots : task[t].gh[k].re = 0 => Out(t).val.o[k] = None

\* A cycle whose three commands were transmitted and got no usable reply
\* returned the snapshot of three None values
C6_Witness ==
    \E t \in Tasks :
        /\ Out(t).op = "update"
        /\ Out(t).exc = "none"
        /\ \A k \in Slots : task[t].gh[k].rq # 0 /\ Out(t).val.o[k] = None
        /\ \E k \in Slots : task[t].gh[k].re # 0

\* C7: at most one socket of the client is open and it is the one the
\* client references; connect() on a client that holds a socket keeps that
\* socket and creates none.
C7_ConnectStep ==
    \A t \in Tasks :
        ( /\ task[t].pc = "idle"
          /\ sock # 0
          /\ ncalls' = ncalls + 1
          /\ (task[t]'.op = "connect" \/ Out(t)'.op = "connect") )
        => (sock' = sock /\ sockets' = sockets)
\* C7 (the formula): every open socket is the referenced one, always, and
\* every connect() on a client holding a socket reuses it.
C7_OneSocketReused ==
    /\ [](OpenSockets \subseteq {sock})
    /\ [][C7_ConnectStep]_vars

\* C8: a polling cycle whose snapshot is entirely None ends in UpdateFailed,
\* that is, _async_update_data never returns such a snapshot.
C8_EmptySnapshotFails ==
    \A t \in Tasks :
        ~ ( /\ Out(t).op = "update"
            /\ Out(t).exc = "none"
            /\ \A k \in Slots : Out(t).val.o[k] = None )

\* The reply set_es_mode received carries a `result` object whose
\* `set_result` is the boolean true
RepliedSetTrue(t) ==
    /\ GotObject(t)
    /\ s_result \in DOMAIN Out(t).got.val.o
    /\ LET res == Out(t).got.val.o[s_result]
       IN  /\ res.t = "obj"
           /\ s_set_result \in DOMAIN res.o
           /\ res.o[s_set_result] = PyBool(TRUE)

\* C9: set_es_mode returns true only when the reply carries a `result`
\* object whose `set_result` is exactly true, and false for every other
\* reply it returns for.
C9_TrueOnlyOnSetResult ==
    \A t \in Tasks :
        (Out(t).op = "set_es_mode" /\ Out(t).exc = "none") =>
            (Out(t).val = PyBool(RepliedSetTrue(t)))

\* C10: set_es_mode ends by returning a boolean, never by raising
C10_SetModeReturnsBool ==
    \A t \in Tasks :
        Out(t).op = "set_es_mode" => (Out(t).exc = "none" /\ Out(t).val.t = "bool")

\* C11: set_es_mode with a mode that is not one of Auto, AI, Manual, Passive
\* transmits no ES.SetMode datagram (no such request is ever on the wire)
\* and returns false.
C11_UnknownModeRejected ==
    /\ \A q \in wire :
          q.req.method = CMD_ES_SET_MODE => InModes(q.req.params.config.mode)
    /\ \A t \in Tasks :
          (Out(t).op = "set_es_mode" /\ ~InModes(Out(t).arg.mode)) =>
              (Out(t).exc = "none" /\ Out(t).val = PyBool(FALSE) /\ Out(t).rq = 0)

\* The set_es_mode call of task t has transmitted its ES.SetMode request
\* and awaits the reply
SetModeSent(t) ==
    /\ task[t].op = "set_es_mode"
    /\ task[t].pc = "receiving"
    /\ task[t].req.method = CMD_ES_SET_MODE

\* The params the specification documents for a call without override
C12_Documented(m) ==
    CASE m = "Auto" ->
           [ id |-> 1, config |-> [mode |-> "Auto", auto_cfg |-> [enable |-> 1]] ]
      [] m = "AI" ->
           [ id |-> 1, config |-> [mode |-> "AI", ai_cfg |-> [enable |-> 1]] ]
      [] m = "Manual" ->
           [ id |-> 1,
             config |->
               [ mode |-> "Manual",
                 manual_cfg |->
                   [ time_num |-> 1, start_time |-> "08:30", end_time |-> "20:30",
                     week_set |-> 127, power |-> 100, enable |-> 1 ] ] ]
      [] m = "Passive" ->
           [ id |-> 1,
             config |->
               [mode |-> "Passive", passive_cfg |-> [power |-> 100, cd_time |-> 300]] ]

\* C12: for each mode m of Auto, AI, Manual, Passive, a set_es_mode(m) call
\* without override transmits ES.SetMode with params
\* {id: 1, config: {mode: m, <m>_cfg: documented default}} and nothing else.
C12_DefaultParams ==
    \A t \in Tasks :
        ( /\ SetModeSent(t)
          /\ task[t].arg.config = NoParams
          /\ task[t].arg.mode \in {"Auto", "AI", "Manual", "Passive"} )
        => task[t].req.params = C12_Documented(task[t].arg.mode)

\* set_es_mode("Manual") without override has transmitted its request
C12_Witness ==
    \E t \in Tasks, q \in wire :
        /\ SetModeSent(t)
        /\ task[t].arg = [mode |-> "Manual", config |-> NoParams]
        /\ q.req = task[t].req
        /\ DOMAIN q.req.params.config = {"mode", "manual_cfg"}

\* The `*_cfg` key that belongs to a mode
C13_OwnKey(m) ==
    CASE m = "Auto" -> "auto_cfg"
      [] m = "AI" -> "ai_cfg"
      [] m = "Manual" -> "manual_cfg"
      [] m = "Passive" -> "passive_cfg"
      [] OTHER -> "none"

\* C13: when the caller's config has the `<mode>_cfg` entry of the selected
\* mode, the transmitted ES.SetMode config consists of `mode` and that entry
\* with exactly the supplied object; entries for other modes are not sent.
C13_OverrideUsed ==
    \A t \in Tasks :
        ( /\ SetModeSent(t)
          /\ C13_OwnKey(task[t].arg.mode) \in DOMAIN task[t].arg.config )
        => LET k == C13_OwnKey(task[t].arg.mode)
               sent == task[t].req.params
           IN  /\ DOMAIN sent = {"id", "config"}
               /\ sent.id = 1
               /\ DOMAIN sent.config = {"mode", k}
               /\ sent.config.mode = task[t].arg.mode
               /\ sent.config[k] = task[t].arg.config[k]

\* set_es_mode("Passive", {passive_cfg: {power: 50, cd_time: 60}, auto_cfg:
\* ...}) has transmitted passive_cfg as supplied, and no auto_cfg
C13_Witness ==
    \E t \in Tasks, q \in wire :
        /\ SetModeSent(t)
        /\ task[t].arg.mode = "Passive"
        /\ DOMAIN task[t].arg.config = {"passive_cfg", "auto_cfg"}
        /\ q.req = task[t].req
        /\ q.req.params.config =
              [mode |-> "Passive", passive_cfg |-> [power |-> 50, cd_time |-> 60]]

\* C14: every request datagram the client transmits, for any command and
\* after any number of earlier calls, carries id 1.
C14_IdAlwaysOne ==
    /\ \A q \in wire : q.req.id = 1
    /\ \A t \in Tasks : task[t].pc = "receiving" => task[t].req.id = 1

\* An ES.SetMode request with id 1 is on the wire after at least two
\* earlier requests of the client (a probe among them), in a later call
C14_Witness ==
    \E q \in wire :
        /\ q.no >= 3
        /\ q.req.method = CMD_ES_SET_MODE
        /\ q.req.id = 1
        /\ ncalls >= 2

\* C15: disconnect() ends without raising and leaves the client with no
\* socket handle and the connected flag false, whatever the client's state
\* before the call and whether or not closing the socket failed.
C15_DisconnectClears ==
    \A t \in Tasks :
        Out(t).op = "disconnect" =>
            (Out(t).exc = "none" /\ sock = 0 /\ connected = FALSE)

\* disconnect() has ended on a client that held a socket: the socket is
\* closed, and no socket is left open
C15_Witness ==
    \E t \in Tasks, i \in SockIds :
        /\ Out(t).op = "disconnect"
        /\ sockets[i].st = "closed"
        /\ OpenSockets = {}
        /\ sock = 0

\* The innermost caller awaiting the _send_command of task record tk
TopFrame(tk) == IF tk.stack = << >> THEN "none" ELSE tk.stack[Len(tk.stack)].f

\* A step in which connect() of task t creates socket i and, the configured
\* port being refused, binds an ephemeral port
C16_FallbackStep(t, i) ==
    /\ task[t]' # task[t]
    /\ sockets[i].st = "unused"
    /\ sockets'[i].st = "open"
    /\ sockets'[i].port = "eph"

\* C16: when the bind of the configured port fails, connect() binds an
\* ephemeral port and goes on to the liveness probe: the step leaves the
\* client holding the socket, connected, with the Marstek.GetDevice probe
\* handed to sendto; connect() does not return in that step.
C16_BindFallback ==
    [][ \A t \in Tasks, i \in SockIds :
          C16_FallbackStep(t, i) =>
              /\ sock' = i
              /\ connected'
              /\ task'[t].pc = "sending"
              /\ task'[t].rsock = i
              /\ TopFrame(task'[t]) = "probe"
              /\ task'[t].req.method = CMD_GET_DEVICE ]_vars

\* connect() has returned true on a socket bound to an ephemeral port
C16_Witness ==
    \E t \in Tasks :
        /\ Out(t).op = "connect"
        /\ Out(t).val = PyBool(TRUE)
        /\ sock # 0
        /\ sockets[sock].port = "eph"

\* C17: connect() returns true only if the reply to its probe carried a
\* `result` object; in particular it returns false for a reply with neither
\* `result` nor `error`.
C17_TrueOnlyOnResult ==
    \A t \in Tasks :
        (Out(t).op = "connect" /\ Out(t).exc = "none" /\ Out(t).val = PyBool(TRUE)) =>
            /\ GotObject(t)
            /\ s_result \in DOMAIN Out(t).got.val.o
            /\ Out(t).got.val.o[s_result].t = "obj"

\* The calls that are one _send_command: get_device_info and, with a
\* request that differs from the probe's, set_es_mode
C18_Ops == {"get_device_info", "set_es_mode"}

\* The probe of an implicit connect is running in task record tk
InImplicitProbe(tk) ==
    /\ Len(tk.stack) >= 2
    /\ tk.stack[Len(tk.stack)].f = "probe"
    /\ tk.stack[Len(tk.stack) - 1].f = "implicit"
    /\ tk.req.method = CMD_GET_DEVICE

\* A call on a client with no socket starts with connect(): it either is in
\* the probe of the implicit connect afterwards, or connect() has failed
C18_ConnectFirst ==
    \A t \in Tasks :
        ( /\ task[t].pc = "idle"
          /\ sock = 0
          /\ task'[t] # task[t]
          /\ (task'[t].op \in C18_Ops \/ Out(t)'.op \in C18_Ops) )
        => \/ task'[t].pc = "sending" /\ InImplicitProbe(task'[t])
           \/ Out(t)'.op \in C18_Ops /\ Out(t)'.conn = "false"

\* The step in which the implicit connect returns true is the one that ends
\* the probe exchange, and it hands the command's own request, not yet
\* transmitted, to sendto
C18_SendAfterProbe ==
    \A t \in Tasks :
        (task[t].conn # "true" /\ task'[t].conn = "true") =>
            /\ task[t].pc = "receiving"
            /\ InImplicitProbe(task[t])
            /\ task'[t].pc = "sending"
            /\ task'[t].req = task[t].stack[Len(task[t].stack) - 1].req
            /\ task'[t].rq = 0
            /\ ~InImplicitProbe(task'[t])

\* C18: _send_command on a client with no socket first runs connect(); if
\* connect() returns false the command's request is never transmitted and
\* the call returns None (set_es_mode: false); if it returns true the
\* command's request is transmitted after the probe exchange has completed.
C18_ImplicitConnect ==
    /\ [][C18_ConnectFirst /\ C18_SendAfterProbe]_vars
    /\ [](\A t \in Tasks :
            (Out(t).op \in C18_Ops /\ Out(t).conn = "false") =>
                /\ Out(t).exc = "none"
                /\ Out(t).rq = 0
                /\ Out(t).val = IF Out(t).op = "set_es_mode" THEN PyBool(FALSE) ELSE None)
    /\ [](\A t \in Tasks :
            (task[t].op \in C18_Ops /\ task[t].conn = "true" /\ task[t].pc = "receiving") =>
                /\ task[t].rq > 1
                /\ task[t].req.method =
                      IF task[t].op = "set_es_mode" THEN CMD_ES_SET_MODE ELSE CMD_GET_DEVICE)

\* set_es_mode on a client with no socket: the implicit connect returned
\* true and the ES.SetMode request was transmitted after the probe
C18_Witness ==
    \E t \in Tasks, q \in wire :
        /\ task[t].op = "set_es_mode"
        /\ task[t].conn = "true"
        /\ task[t].pc = "receiving"
        /\ q.no = task[t].rq
        /\ q.no > 1
        /\ q.req.method = CMD_ES_SET_MODE

\* get_device_info on a client with no socket: the probe of the implicit
\* connect was transmitted and failed, and the call returned None
C18_WitnessFailed ==
    \E t \in Tasks :
        /\ Out(t).op = "get_device_info"
        /\ Out(t).conn = "false"
        /\ Out(t).val = None
        /\ nreq >= 1
        /\ sock # 0

\* C19: a call of an accessor, here get_device_info, is one UDP round trip
\* whatever the connection state before the call: it transmits no more than
\* one request datagram, exactly one if its own request is transmitted, and
\* performs at most one receive.
C19_OneRoundTrip ==
    \A t \in Tasks :
        Out(t).op = "get_device_info" =>
            /\ Out(t).sent <= 1
            /\ Out(t).rcvs <= 1
            /\ Out(t).rq # 0 => Out(t).sent = 1

\* The get_all_data command task record tk is at ("none" outside of it)
GadFrame(tk) ==
    IF \E i \in DOMAIN tk.stack : tk.stack[i].f = "gad_device" THEN "gad_device"
    ELSE IF \E i \in DOMAIN tk.stack : tk.stack[i].f = "gad_battery" THEN "gad_battery"
    ELSE IF \E i \in DOMAIN tk.stack : tk.stack[i].f = "gad_es_mode" THEN "gad_es_mode"
    ELSE "none"

\* The places (1, 2, 3; 0: has not returned) at which the commands for
\* device, battery and es_mode have returned
Places(gh) == <<gh["device"].at, gh["battery"].at, gh["es_mode"].at>>

\* C20: within one get_all_data call the commands are issued in the order
\* Marstek.GetDevice, Bat.GetStatus, ES.GetMode, each one only after the
\* previous one has returned, and all three have been run when the call
\* ends, whatever became of the earlier ones.
C20_CommandsInOrder ==
    \A t \in Tasks :
        /\ (task[t].op = "update" /\ task[t].pc # "idle") =>
              LET g == GadFrame(task[t])
                  own == TopFrame(task[t]) = g
                  m == task[t].req.method
              IN  \/ /\ g = "gad_device"
                     /\ Places(task[t].gh) = <<0, 0, 0>>
                     /\ own => m = "Marstek.GetDevice"
                  \/ /\ g = "gad_battery"
                     /\ Places(task[t].gh) = <<1, 0, 0>>
                     /\ own => m = "Bat.GetStatus"
                  \/ /\ g = "gad_es_mode"
                     /\ Places(task[t].gh) = <<1, 2, 0>>
                     /\ own => m = "ES.GetMode"
        /\ Out(t).op = "update" =>
              /\ Places(task[t].gh) = <<1, 2, 3>>
              /\ \A j, k \in {"device", "battery", "es_mode"} :
                    ( /\ task[t].gh[j].at < task[t].gh[k].at
                      /\ task[t].gh[j].rq # 0
                      /\ task[t].gh[k].rq # 0 )
                    => task[t].gh[j].rq < task[t].gh[k].rq

\* A cycle whose Marstek.GetDevice command was lost has gone on to transmit
\* Bat.GetStatus and ES.GetMode, and ES.GetMode got a reply that was used
C20_Witness ==
    \E t \in Tasks :
        /\ Out(t).op = "update"
        /\ Out(t).exc = "none"
        /\ Out(t).val.o["device"] = None
        /\ task[t].gh["battery"].rq # 0
        /\ task[t].gh["es_mode"].rq > task[t].gh["battery"].rq
        /\ Out(t).val.o["es_mode"] # None

\* C21: validate_input awaits connect(), then get_device_info(), then
\* disconnect(); it raises CannotConnect when connect() returned false (and
\* then asks the device nothing more), raises InvalidDevice when connect()
\* returned true and get_device_info() returned None, and on every path it
\* ends with its client holding no socket and with no socket left open.
C21_ValidateInput ==
    \A t \in Tasks :
        Out(t).op = "validate_input" =>
            LET cs == Out(t).calls
            IN  /\ sock = 0
                /\ connected = FALSE
                /\ OpenSockets = {}
                /\ Len(cs) \in {1, 2}
                /\ cs[1].f = "connect"
                /\ cs[1].r \in {Ok(PyBool(TRUE)), Ok(PyBool(FALSE))}
                /\ cs[1].r = Ok(PyBool(FALSE)) =>
                      (Len(cs) = 1 /\ Out(t).exc = "CannotConnect")
                /\ cs[1].r = Ok(PyBool(TRUE)) =>
                      /\ Len(cs) = 2
                      /\ cs[2].f = "get_device_info"
                      /\ cs[2].r = Ok(None) => Out(t).exc = "InvalidDevice"
                      /\ Out(t).exc # "CannotConnect"

\* validate_input has ended in InvalidDevice after two exchanges with the
\* device, and the socket it used is closed
C21_Witness ==
    \E t \in Tasks, i \in SockIds :
        /\ Out(t).op = "validate_input"
        /\ Out(t).exc = "InvalidDevice"
        /\ Out(t).sent = 2
        /\ sockets[i].st = "closed"
        /\ OpenSockets = {}

\* C22: once async_unload_entry has succeeded for the entry, no socket of
\* the entry's client is open, and if the client ever had a socket,
\* disconnect() has run for it exactly once.
C22_UnloadClosesSocket ==
    \A t \in Tasks :
        (Out(t).op = "async_unload_entry" /\ Out(t).val = PyBool(TRUE)) =>
            /\ OpenSockets = {}
            /\ (\E i \in SockIds : sockets[i].st # "unused") =>
                  Cardinality({i \in DOMAIN Out(t).calls :
                                  Out(t).calls[i].f = "disconnect"}) = 1

\* connect(), called directly or by _send_command, has returned false to
\* the call of task t that just ended
ConnectReturnedFalse(t) ==
    \/ Out(t).op = "connect" /\ Out(t).exc = "none" /\ Out(t).val = PyBool(FALSE)
    \/ Out(t).op \in C18_Ops /\ Out(t).conn = "false"

\* A _send_command on a client that holds a socket uses that socket as it
\* is: no socket is created, no probe is sent first
C23_ReuseStep ==
    \A t \in Tasks :
        ( /\ task[t].pc = "idle"
          /\ sock # 0
          /\ task'[t].op = "get_device_info" )
        => /\ sock' = sock
           /\ sockets' = sockets
           /\ task'[t].pc = "sending"
           /\ task'[t].rsock = sock
           /\ task'[t].stack = << >>

\* C23: after connect() returned false the client holds no socket, or an
\* open socket that is bound; the next _send_command uses a held socket
\* directly.
C23_NoUnboundSocket ==
    /\ [](\A t \in Tasks :
            ConnectReturnedFalse(t) =>
                \/ sock = 0
                \/ sockets[sock].st = "open" /\ sockets[sock].port # "none")
    /\ [][C23_ReuseStep]_vars

\* C25: async_select_option awaits set_es_mode at most once, and only for
\* an option among Auto, AI, Manual, Passive (any other option reaches
\* neither the client nor the device); it requests a coordinator refresh,
\* once, if and only if set_es_mode returned true.
C25_SelectOption ==
    \A t \in Tasks :
        Out(t).op = "select" =>
            LET cs == Out(t).calls
                valid == Out(t).arg.mode \in {"Auto", "AI", "Manual", "Passive"}
            IN  /\ Len(cs) <= 1
                /\ Len(cs) = 1 => (valid /\ cs[1].f = "set_es_mode")
                /\ ~valid => (cs = << >> /\ Out(t).sent = 0 /\ Out(t).exc = "none")
                /\ Out(t).rf \in {0, 1}
                /\ Out(t).rf = 1 <=> (Len(cs) = 1 /\ cs[1].r = Ok(PyBool(TRUE)))
                /\ Out(t).rf = 1 => refresh

\* async_select_option has ended after set_es_mode returned true: a
\* refresh was requested
C25_Witness ==
    \E t \in Tasks :
        /\ Out(t).op = "select"
        /\ Len(Out(t).calls) = 1
        /\ Out(t).calls[1].r = Ok(PyBool(TRUE))
        /\ Out(t).rf = 1
        /\ refresh

\* async_select_option has ended after set_es_mode returned false: no
\* refresh was requested
C25_WitnessFalse ==
    \E t \in Tasks :
        /\ Out(t).op = "select"
        /\ Len(Out(t).calls) = 1
        /\ Out(t).calls[1].r = Ok(PyBool(FALSE))
        /\ Out(t).re # 0
        /\ ~refresh

\* C24: whatever snapshot the poll produced, with any of device, battery
\* and es_mode None, every sensor value, binary sensor value, the select's
\* current option and the construction of the entities complete without
\* raising, and a value whose category is None is None.
C24_EntitiesNeverRaise ==
    \A t \in Tasks :
        Out(t).op = "entities" =>
            \A e \in Entities :
                /\ Out(t).val[e].exc = "none"
                /\ ( /\ e \notin Constructors
                     /\ Out("poll").val.o[CategoryOf(e)] = None )
                   => Out(t).val[e].val = None

\* C26: on every snapshot the charging and the discharging power are both
\* numbers greater than or equal to 0, at most one of them is not 0, and
\* for an integer ongrid_power p they are -p if p < 0 else 0, and p if
\* p > 0 else 0.
C26_PowerSplit ==
    \A t \in Tasks :
        Out(t).op = "entities" =>
            LET ch == Out(t).val["battery_charging_power"]
                ds == Out(t).val["battery_discharging_power"]
                es == Out("poll").val.o["es_mode"]
            IN  /\ ch.exc = "none" /\ ds.exc = "none"
                /\ IsNumber(ch.val) /\ Num(ch.val) >= 0
                /\ IsNumber(ds.val) /\ Num(ds.val) >= 0
                /\ Num(ch.val) = 0 \/ Num(ds.val) = 0
                /\ ( /\ IsDict(es)
                     /\ s_ongrid_power \in DOMAIN es.o
                     /\ es.o[s_ongrid_power].t = "num" )
                   => LET p == es.o[s_ongrid_power].n
                      IN  /\ ch.val = PyInt(IF p < 0 THEN 0 - p ELSE 0)
                          /\ ds.val = PyInt(IF p > 0 THEN p ELSE 0)

====
